---- MODULE Spec2Model ----
(***************************************************************************)
(* Model of the SecretSanta repository: the two scripts SecretSanta.py and *)
(* RandomSecretSanta.py (main and randomizeSecretSanta) and the unittest   *)
(* verifier test_SecretSanta.py / test_RandomSecretSanta.py.               *)
(*                                                                         *)
(* A pair [giver, receiver] of the Python code is the tuple                *)
(* <<giver, receiver>>: pair[0] is pair[1] here and pair[1] is pair[2].    *)
(* A save file is a record [present, pairs]; files[k] is the save file of  *)
(* the year (now.tm_year - k), so files[0] is the current-year file.       *)
(***************************************************************************)
EXTENDS Integers, Sequences, FiniteSets, TLC

\* ------------------------------------------------------------------ bounds
\* Largest number of participants in family_data.json that is enumerated.
NumPeople == 3
\* Save files exist for at most the MaxHistory most recent previous years.
MaxHistory == 2

\* ------------------------------------------------------- program constants
\* while ... and tries < 10 / if tries == 10
MaxTries == 10
\* getSaveFileNames(nPreviousSaveFiles=4) in the verifier and in __main__
FourPreviousYears == 4
\* def main(sendTextMessages=False, nPreviousSaveFiles=1)
DefaultPreviousSaveFiles == 1

Names == <<"A", "B", "C", "D", "E", "F">>

VARIABLES
    script,               \* which script's main runs: "SecretSanta" | "RandomSecretSanta"
    families,             \* getFamilyData()[0]: list of lists of names
    files,                \* the pickle save files, by age in years
    off2020,              \* age of the file 'secretSanta_2020' the verifier opens
    file2020,             \* the file 'secretSanta_2020' as the verifier opened it
    sendTextMessages,     \* argument of SecretSanta.main
    nPreviousSaveFiles,   \* argument of SecretSanta.main
    pc,                   \* position of the run
    previousSecretSanta,  \* dict giver -> receivers (SecretSanta), list of pairs (Random)
    tries,
    randomizationSuccessful,
    secretSanta,          \* the pair list being built / returned
    fi, mi,               \* position of the two for loops: families[fi][mi]
    testSuccessful,
    sent                  \* text messages handed to the messaging client, in order

vars == <<script, families, files, off2020, file2020, sendTextMessages,
          nPreviousSaveFiles,
          pc, previousSecretSanta, tries, randomizationSuccessful, secretSanta,
          fi, mi, testSuccessful, sent>>

\* ----------------------------------------------------------------- helpers
Range(s) == {s[i] : i \in DOMAIN s}

RECURSIVE Flatten(_)
\* [item for sublist in lists for item in sublist]
Flatten(lists) ==
    IF lists = <<>> THEN <<>> ELSE Head(lists) \o Flatten(Tail(lists))

RECURSIVE RemoveFirst(_, _)
\* list.remove(x): drops the first element equal to x
RemoveFirst(list, x) ==
    IF list = <<>> THEN <<>>
    ELSE IF Head(list) = x THEN Tail(list)
    ELSE <<Head(list)>> \o RemoveFirst(Tail(list), x)

AbsentFile == [present |-> FALSE, pairs |-> <<>>]
SavedFile(pairList) == [present |-> TRUE, pairs |-> pairList]

EmptyDict == <<>>

\* -------------------------------------------------- history (both scripts)
\* previousSecretSanta[pair[0]] += [pair[1]]  /  previousSecretSanta[pair[0]] = [pair[1]]
AddPair(dict, pair) ==
    IF pair[1] \in DOMAIN dict
    THEN [dict EXCEPT ![pair[1]] = Append(@, pair[2])]
    ELSE [g \in (DOMAIN dict) \cup {pair[1]} |->
            IF g = pair[1] THEN <<pair[2]>> ELSE dict[g]]

RECURSIVE AddPairs(_, _)
\* for pair in secretSantas: ...
AddPairs(dict, pairList) ==
    IF pairList = <<>> THEN dict
    ELSE AddPairs(AddPair(dict, Head(pairList)), Tail(pairList))

RECURSIVE MergeFiles(_, _, _)
\* for fileName in previousSavefiles: if os.path.isfile(fileName): ...
\* previousSavefiles are the files of age first..last, youngest first.
MergeFiles(dict, first, last) ==
    IF first > last THEN dict
    ELSE MergeFiles(IF files[first].present
                    THEN AddPairs(dict, files[first].pairs) ELSE dict,
                    first + 1, last)

getSecretSantasFromPreviousYears(n) == MergeFiles(EmptyDict, 1, n)

RECURSIVE FirstReceiverOf(_, _)
\* RandomSecretSanta: for pair in previousSecretSanta: if pair[0] == member: ... break
\* The receivers the loop looks at: those of the first pair of the giver.
FirstReceiverOf(pairList, member) ==
    IF pairList = <<>> THEN {}
    ELSE IF Head(pairList)[1] = member THEN {Head(pairList)[2]}
    ELSE FirstReceiverOf(Tail(pairList), member)

\* Variant: only the oldest-loaded receiver of the giver is removed.
PreviousReceiversDictFirstOnly(prev, member) ==
    IF prev # EmptyDict /\ member \in DOMAIN prev THEN {prev[member][1]} ELSE {}

\* The receivers one of the scripts removes from availableReceivers for member.
PreviousReceiversDict(prev, member) ==
    IF prev # EmptyDict /\ member \in DOMAIN prev THEN Range(prev[member]) ELSE {}

PreviousReceiversList(prev, member) ==
    IF prev # <<>> THEN FirstReceiverOf(prev, member) ELSE {}

\* Variant: the history is not consulted.
PreviousReceiversNone(prev, member) == {}

PreviousReceivers(prev, member) ==
    IF script = "SecretSanta" THEN PreviousReceiversDict(prev, member)
    ELSE PreviousReceiversList(prev, member)

\* ---------------------------------------------------- randomizeSecretSanta
\* Variant: the own family is not removed.
OtherFamiliesKeepsOwn(fams, family) == Flatten(fams)

\* otherFamilies = families.copy(); otherFamilies.remove(family); flatten
OtherFamilies(fams, family) == Flatten(RemoveFirst(fams, family))

\* [pair[1] for pair in secretSanta]
Receivers(pairList) == {pairList[i][2] : i \in DOMAIN pairList}
\* [pair[0] for pair in secretSanta]
Givers(pairList) == {pairList[i][1] : i \in DOMAIN pairList}

\* Variant: receivers that already have a secret santa are not removed.
UnclaimedReceiversKeepsClaimed(fams, family, pairList) ==
    Range(OtherFamilies(fams, family))

\* set(otherFamilies) - set(receivers so far)
UnclaimedReceivers(fams, family, pairList) ==
    Range(OtherFamilies(fams, family)) \ Receivers(pairList)

\* Variant: only the member itself is excluded, not the member's family.
AvailableReceiversOnlyNotSelf(fams, family, member, pairList, prev) ==
    ((Range(Flatten(fams)) \ {member}) \ Receivers(pairList))
        \ PreviousReceivers(prev, member)

\* availableReceivers when member of family is about to get a receiver
AvailableReceivers(fams, family, member, pairList, prev) ==
    UnclaimedReceivers(fams, family, pairList) \ PreviousReceivers(prev, member)

\* while not randomizationSuccessful and tries < 10: secretSanta = [] ...
StartAttempt ==
    /\ pc = "while"
    /\ ~randomizationSuccessful
    /\ tries < MaxTries
    /\ secretSanta' = <<>>
    /\ fi' = 1
    /\ mi' = 1
    /\ pc' = IF families = <<>> THEN "endattempt" ELSE "member"
    /\ UNCHANGED <<script, families, files, off2020, file2020,
                   sendTextMessages, nPreviousSaveFiles, previousSecretSanta, tries,
                   randomizationSuccessful, testSuccessful, sent>>

\* receiver = choice(availableReceivers); randomizationSuccessful = True;
\* secretSanta.append([member, receiver]); next member, next family or end of the for
ChooseReceiver ==
    /\ pc = "member"
    /\ LET family == families[fi]
           member == family[mi]
           availableReceivers ==
               AvailableReceivers(families, family, member, secretSanta,
                                  previousSecretSanta)
       IN  /\ availableReceivers # {}
           /\ \E receiver \in availableReceivers :
                  secretSanta' = Append(secretSanta, <<member, receiver>>)
           /\ randomizationSuccessful' = TRUE
           /\ IF mi < Len(family)
              THEN /\ mi' = mi + 1
                   /\ fi' = fi
                   /\ pc' = "member"
              ELSE /\ mi' = 1
                   /\ fi' = fi + 1
                   /\ pc' = IF fi < Len(families) THEN "member" ELSE "endattempt"
    /\ UNCHANGED <<script, families, files, off2020, file2020,
                   sendTextMessages, nPreviousSaveFiles, previousSecretSanta, tries,
                   testSuccessful, sent>>

\* if len(availableReceivers) == 0: randomizationSuccessful = False; break; break
DeadEnd ==
    /\ pc = "member"
    /\ AvailableReceivers(families, families[fi], families[fi][mi], secretSanta,
                          previousSecretSanta) = {}
    /\ randomizationSuccessful' = FALSE
    /\ pc' = "endattempt"
    /\ UNCHANGED <<script, families, files, off2020, file2020,
                   sendTextMessages, nPreviousSaveFiles, previousSecretSanta, tries, secretSanta,
                   fi, mi, testSuccessful, sent>>

\* Variant: the attempt counter is not incremented.
EndAttemptKeepsTries ==
    /\ pc = "endattempt"
    /\ pc' = "while"
    /\ UNCHANGED <<script, families, files, off2020, file2020,
                   sendTextMessages, nPreviousSaveFiles, previousSecretSanta, tries,
                   randomizationSuccessful, secretSanta, fi, mi,
                   testSuccessful, sent>>

\* tries += 1
EndAttempt ==
    /\ pc = "endattempt"
    /\ tries' = tries + 1
    /\ pc' = "while"
    /\ UNCHANGED <<script, families, files, off2020, file2020,
                   sendTextMessages, nPreviousSaveFiles, previousSecretSanta,
                   randomizationSuccessful, secretSanta, fi, mi,
                   testSuccessful, sent>>

LoopExits == randomizationSuccessful \/ ~(tries < MaxTries)

\* Variant: the check after the loop is off by one and never fires.
RaisesExceptionOffByOne == tries = MaxTries + 1

\* if tries == 10: raise Exception(...)
RaisesException == tries = MaxTries

\* Variant: the list built so far is saved on the way out.
RaiseAfterSaving ==
    /\ pc = "while"
    /\ LoopExits
    /\ RaisesException
    /\ files' = [files EXCEPT ![0] = SavedFile(secretSanta)]
    /\ pc' = "raised"
    /\ UNCHANGED <<script, families, off2020, file2020,
                   sendTextMessages, nPreviousSaveFiles, previousSecretSanta, tries,
                   randomizationSuccessful, secretSanta, fi, mi,
                   testSuccessful, sent>>

\* the exception leaves randomizeSecretSanta and main
Raise ==
    /\ pc = "while"
    /\ LoopExits
    /\ RaisesException
    /\ pc' = "raised"
    /\ UNCHANGED <<script, families, files, off2020, file2020,
                   sendTextMessages, nPreviousSaveFiles, previousSecretSanta, tries,
                   randomizationSuccessful, secretSanta, fi, mi,
                   testSuccessful, sent>>

\* return secretSanta (to main, which goes on to save it)
Return ==
    /\ pc = "while"
    /\ LoopExits
    /\ ~RaisesException
    /\ pc' = "save"
    /\ UNCHANGED <<script, families, files, off2020, file2020,
                   sendTextMessages, nPreviousSaveFiles, previousSecretSanta, tries,
                   randomizationSuccessful, secretSanta, fi, mi,
                   testSuccessful, sent>>

\* ------------------------------------------------------------ the verifier
RECURSIVE FirstFamilyOf(_, _)
\* for family in families: if pair[0] in family: ... break
FirstFamilyOf(fams, name) ==
    IF fams = <<>> THEN {}
    ELSE IF name \in Range(Head(fams)) THEN {Head(fams)}
    ELSE FirstFamilyOf(Tail(fams), name)

\* test_all_names_in_list (same code in both test files)
test_all_names_in_list(file, fams) ==
    /\ file.present
    /\ LET allPeople == Flatten(fams)
           pairList == file.pairs
       IN  /\ Len(allPeople) = Len(pairList)
           /\ Len(allPeople) = Cardinality(Range(allPeople) \cup Givers(pairList))
           /\ Len(allPeople) = Cardinality(Range(allPeople) \cup Receivers(pairList))

\* test_no_duplicates (same code in both test files)
test_no_duplicates(file, fams) ==
    /\ file.present
    /\ LET allPeople == Flatten(fams)
       IN  /\ Len(allPeople) = Cardinality(Givers(file.pairs))
           /\ Len(allPeople) = Cardinality(Receivers(file.pairs))

\* test_secretSanta_and_receiver_different: len(pair) == len(set(pair))
test_secretSanta_and_receiver_different(file) ==
    /\ file.present
    /\ \A i \in DOMAIN file.pairs :
           Len(file.pairs[i]) = Cardinality(Range(file.pairs[i]))

\* test_secretSanta_and_receiver_not_family
test_secretSanta_and_receiver_not_family(file, fams) ==
    /\ file.present
    /\ \A i \in DOMAIN file.pairs :
           \A family \in FirstFamilyOf(fams, file.pairs[i][1]) :
               file.pairs[i][2] \notin Range(family)

\* test_not_same_receiver_as_previous_year: only the file of last year is read
test_not_same_receiver_as_previous_year ==
    /\ files[0].present
    /\ \/ ~files[1].present
       \/ \A i \in DOMAIN files[0].pairs :
              \A prevReceiver \in FirstReceiverOf(files[1].pairs, files[0].pairs[i][1]) :
                  prevReceiver # files[0].pairs[i][2]

\* test_not_same_receiver_as_any_of_four_previous_year:
\* assertTrue(pair[0] not in previousSecretSanta[pair[0]])
test_not_same_receiver_as_any_of_four_previous_year ==
    /\ files[0].present
    /\ LET prev == MergeFiles(EmptyDict, 1, FourPreviousYears)
       IN  \A i \in DOMAIN files[0].pairs :
               files[0].pairs[i][1] \in DOMAIN prev =>
                   files[0].pairs[i][1] \notin Range(prev[files[0].pairs[i][1]])

\* test_SecretSanta.TestScript: every test reads getSaveFileNames()[0]
TestSecretSantaPasses ==
    /\ test_all_names_in_list(files[0], families)
    /\ test_no_duplicates(files[0], families)
    /\ test_secretSanta_and_receiver_different(files[0])
    /\ test_secretSanta_and_receiver_not_family(files[0], families)
    /\ test_not_same_receiver_as_previous_year
    /\ test_not_same_receiver_as_any_of_four_previous_year

\* test_RandomSecretSanta.TestScript: filename = 'secretSanta_2020', which is
\* the save file of age now.tm_year - 2020
TestRandomSecretSantaPasses(file) ==
    /\ test_all_names_in_list(file, families)
    /\ test_no_duplicates(file, families)
    /\ test_secretSanta_and_receiver_different(file)
    /\ test_secretSanta_and_receiver_not_family(file, families)

\* test_loader.discover(test_directory, pattern='test_*.py'); wasSuccessful()
runUnitTestOnSavedFile(file) ==
    TestSecretSantaPasses /\ TestRandomSecretSantaPasses(file)

\* -------------------------------------------------------------------- main
\* SecretSanta.main: previousSecretSanta = getSecretSantasFromPreviousYears(...)
\* then the call randomizeSecretSanta(families, previousSecretSanta)
LoadPreviousYears ==
    /\ pc = "main"
    /\ script = "SecretSanta"
    /\ previousSecretSanta' = getSecretSantasFromPreviousYears(nPreviousSaveFiles)
    /\ tries' = 0
    /\ randomizationSuccessful' = FALSE
    /\ pc' = "while"
    /\ UNCHANGED <<script, families, files, off2020, file2020,
                   sendTextMessages, nPreviousSaveFiles, secretSanta, fi, mi, testSuccessful, sent>>

\* RandomSecretSanta.main: if os.path.isfile(previousSavefile): pickle.load
\* then the call randomizeSecretSanta(families, previousSecretSanta)
LoadPreviousSavefile ==
    /\ pc = "main"
    /\ script = "RandomSecretSanta"
    /\ files[1].present
    /\ previousSecretSanta' = files[1].pairs
    /\ tries' = 0
    /\ randomizationSuccessful' = FALSE
    /\ pc' = "while"
    /\ UNCHANGED <<script, families, files, off2020, file2020,
                   sendTextMessages, nPreviousSaveFiles, secretSanta, fi, mi, testSuccessful, sent>>

\* RandomSecretSanta.main without a file of last year: previousSecretSanta is
\* never bound and line 34 reads it (UnboundLocalError)
UnboundPreviousSecretSanta ==
    /\ pc = "main"
    /\ script = "RandomSecretSanta"
    /\ ~files[1].present
    /\ pc' = "crashed"
    /\ UNCHANGED <<script, families, files, off2020, file2020,
                   sendTextMessages, nPreviousSaveFiles, previousSecretSanta, tries,
                   randomizationSuccessful, secretSanta, fi, mi,
                   testSuccessful, sent>>

\* with open(savefile, "wb") as f: pickle.dump(secretSanta, f)
SaveFile ==
    /\ pc = "save"
    /\ files' = [files EXCEPT ![0] = SavedFile(secretSanta)]
    /\ pc' = IF script = "SecretSanta" THEN "verify" ELSE "send"
    /\ UNCHANGED <<script, families, off2020, file2020,
                   sendTextMessages, nPreviousSaveFiles, previousSecretSanta, tries,
                   randomizationSuccessful, secretSanta, fi, mi,
                   testSuccessful, sent>>

SameFamily(fams, a, b) == \E i \in DOMAIN fams : {a, b} \subseteq Range(fams[i])

\* the pair lists an earlier run over the same family data can have saved
EarlierAssignments(fams) ==
    LET allPeople == Flatten(fams)
        P == Range(allPeople)
    IN  {[i \in DOMAIN allPeople |-> <<allPeople[i], g[allPeople[i]]>>] :
            g \in {h \in [P -> P] :
                     /\ \A a, b \in P : a # b => h[a] # h[b]
                     /\ \A a \in P : ~SameFamily(fams, a, h[a])}}

\* a year further back than the four years main and test_SecretSanta read
OutsideWindow == FourPreviousYears + 1

\* the ages 'secretSanta_2020' can have: the current year, a year with a save
\* file, a year without one, or a year outside the four previous years
Off2020Inputs ==
    0..(IF MaxHistory < FourPreviousYears THEN MaxHistory + 1 ELSE FourPreviousYears)
        \cup {OutsideWindow}

\* the family data of a year outside the window: the first two participants,
\* each a family of their own
OlderFamilyData == <<<<Names[1]>>, <<Names[2]>>>>

\* open(filename, 'rb') in test_RandomSecretSanta: within the four previous
\* years the file is the one main sees; further back it is a file main never
\* touches, missing or saved by a run of that year over older family data
File2020Inputs(age) ==
    IF age <= FourPreviousYears THEN {files[age]}
    ELSE {AbsentFile} \cup
         {SavedFile(a) : a \in EarlierAssignments(OlderFamilyData)}

\* testSuccessful = runUnitTestOnSavedFile(); if not testSuccessful: return
\* The year of the clock decides here which save file 'secretSanta_2020' is.
VerificationFailed ==
    /\ pc = "verify"
    /\ \E age \in Off2020Inputs :
           \E file \in File2020Inputs(age) :
               /\ ~runUnitTestOnSavedFile(file)
               /\ off2020' = age
               /\ file2020' = file
    /\ testSuccessful' = "failed"
    /\ pc' = "failed"
    /\ UNCHANGED <<script, families, files, sendTextMessages,
                   nPreviousSaveFiles, previousSecretSanta, tries,
                   randomizationSuccessful, secretSanta, fi, mi, sent>>

\* print('All tests passed'); if sendTextMessages: ...
VerificationPassed ==
    /\ pc = "verify"
    /\ \E age \in Off2020Inputs :
           \E file \in File2020Inputs(age) :
               /\ runUnitTestOnSavedFile(file)
               /\ off2020' = age
               /\ file2020' = file
    /\ testSuccessful' = "passed"
    /\ pc' = IF sendTextMessages THEN "send" ELSE "finished"
    /\ UNCHANGED <<script, families, files, sendTextMessages,
                   nPreviousSaveFiles, previousSecretSanta, tries,
                   randomizationSuccessful, secretSanta, fi, mi, sent>>

\* for pair in secretSanta: sendTextMessageToSecretSanta(client, ..., pair[0], pair[1])
SendTextMessage ==
    /\ pc = "send"
    /\ Len(sent) < Len(secretSanta)
    /\ sent' = Append(sent, secretSanta[Len(sent) + 1])
    /\ UNCHANGED <<script, families, files, off2020, file2020,
                   sendTextMessages, nPreviousSaveFiles, pc, previousSecretSanta, tries,
                   randomizationSuccessful, secretSanta, fi, mi, testSuccessful>>

\* the for loop over secretSanta is exhausted: main returns
Finish ==
    /\ pc = "send"
    /\ Len(sent) = Len(secretSanta)
    /\ pc' = "finished"
    /\ UNCHANGED <<script, families, files, off2020, file2020,
                   sendTextMessages, nPreviousSaveFiles, previousSecretSanta, tries,
                   randomizationSuccessful, secretSanta, fi, mi,
                   testSuccessful, sent>>

\* ------------------------------------------------------------------ inputs
RECURSIVE Compositions(_)
\* every way of cutting the list of names into consecutive non-empty families
Compositions(names) ==
    IF names = <<>> THEN {<<>>}
    ELSE UNION {{<<SubSeq(names, 1, k)>> \o rest :
                    rest \in Compositions(SubSeq(names, k + 1, Len(names)))} :
                k \in 1..Len(names)}

\* the families of the history scenario of the specification
ExampleFamilies == {<<<<"A", "B">>, <<"C", "D">>>>}

\* family_data.json: the families partition up to NumPeople uniquely named
\* people, in every way the list can be cut; and the example families.
\* The scripts only compare names for equality, so the names are taken in the
\* order of the flattened list.
FamilyInputs ==
    UNION {Compositions(SubSeq(Names, 1, n)) : n \in 1..NumPeople}
        \cup ExampleFamilies

\* ages 1..MaxHistory hold a saved assignment or no file; older files and the
\* file of the current year do not exist when main starts
FileInputs(fams) ==
    LET choices == {AbsentFile} \cup {SavedFile(a) : a \in EarlierAssignments(fams)}
    IN  {[k \in 0..FourPreviousYears |->
             IF k \in DOMAIN h THEN h[k] ELSE AbsentFile] :
         h \in [1..MaxHistory -> choices]}

InitRun ==
    /\ pc = "main"
    /\ previousSecretSanta = EmptyDict
    /\ tries = 0
    /\ randomizationSuccessful = FALSE
    /\ secretSanta = <<>>
    /\ fi = 1
    /\ mi = 1
    /\ testSuccessful = "notrun"
    /\ off2020 = 0
    /\ file2020 = AbsentFile
    /\ sent = <<>>

Init ==
    /\ families \in FamilyInputs
    /\ files \in FileInputs(families)
    /\ \/ /\ script = "SecretSanta"
          /\ sendTextMessages \in BOOLEAN
          /\ nPreviousSaveFiles \in {DefaultPreviousSaveFiles, FourPreviousYears}
       \/ /\ script = "RandomSecretSanta"
          /\ sendTextMessages = TRUE
          /\ nPreviousSaveFiles = DefaultPreviousSaveFiles
    /\ InitRun

Next ==
    \/ LoadPreviousYears
    \/ LoadPreviousSavefile
    \/ UnboundPreviousSecretSanta
    \/ StartAttempt
    \/ ChooseReceiver
    \/ DeadEnd
    \/ EndAttempt
    \/ Raise
    \/ Return
    \/ SaveFile
    \/ VerificationFailed
    \/ VerificationPassed
    \/ SendTextMessage
    \/ Finish

Spec == Init /\ [][Next]_vars

\* A call of randomizeSecretSanta on its own: the inputs main passes to it,
\* the arguments main reads only later at their defaults. Save files that
\* main does not load cannot reach the call and are left out.
RandomizeInit ==
    /\ families \in FamilyInputs
    /\ files \in FileInputs(families)
    /\ \/ /\ script = "SecretSanta"
          /\ nPreviousSaveFiles \in {DefaultPreviousSaveFiles, FourPreviousYears}
       \/ /\ script = "RandomSecretSanta"
          /\ nPreviousSaveFiles = DefaultPreviousSaveFiles
    /\ \A k \in 1..FourPreviousYears : k > nPreviousSaveFiles => ~files[k].present
    /\ sendTextMessages = FALSE
    /\ InitRun

RandomizeNext ==
    \/ LoadPreviousYears
    \/ LoadPreviousSavefile
    \/ UnboundPreviousSecretSanta
    \/ StartAttempt
    \/ ChooseReceiver
    \/ DeadEnd
    \/ EndAttempt
    \/ Raise
    \/ Return

\* The scripts are sequential programs: a step that can be taken is taken.
RandomizeSpec == RandomizeInit /\ [][RandomizeNext]_vars /\ WF_vars(RandomizeNext)

\* The example of the specification: randomizeSecretSanta(families) called
\* with three families of two and no history (the default argument, {} or []),
\* in either script; lines 130-131 have run.
SixPeopleFamilies == <<<<"A", "B">>, <<"C", "D">>, <<"E", "F">>>>

ExampleInit ==
    /\ families = SixPeopleFamilies
    /\ files = [k \in 0..FourPreviousYears |-> AbsentFile]
    /\ script \in {"SecretSanta", "RandomSecretSanta"}
    /\ nPreviousSaveFiles = DefaultPreviousSaveFiles
    /\ sendTextMessages = FALSE
    /\ pc = "while"
    /\ previousSecretSanta = EmptyDict
    /\ tries = 0
    /\ randomizationSuccessful = FALSE
    /\ secretSanta = <<>>
    /\ fi = 1
    /\ mi = 1
    /\ testSuccessful = "notrun"
    /\ off2020 = 0
    /\ file2020 = AbsentFile
    /\ sent = <<>>

ExampleNext ==
    \/ StartAttempt
    \/ ChooseReceiver
    \/ DeadEnd
    \/ EndAttempt
    \/ Raise
    \/ Return

ExampleSpec == ExampleInit /\ [][ExampleNext]_vars /\ WF_vars(ExampleNext)

\* ------------------------------------------------------------- properties
\* randomizeSecretSanta has returned its list to main
Returned == pc \in {"save", "verify", "send", "finished", "failed"}

AllPeople == Range(Flatten(families))

\* the receivers giver had in the previous-year files main loads
HistoryReceivers(giver) ==
    UNION {{files[k].pairs[j][2] :
               j \in {x \in DOMAIN files[k].pairs : files[k].pairs[x][1] = giver}} :
           k \in {y \in 1..nPreviousSaveFiles : files[y].present}}

\* C1: a returned assignment has exactly one pair per participant, every
\* participant is giver of exactly one pair and receiver of exactly one pair,
\* and no name outside the families appears.
C1_Bijection ==
    Returned =>
        /\ Len(secretSanta) = Cardinality(AllPeople)
        /\ \A p \in AllPeople :
               /\ Cardinality({i \in DOMAIN secretSanta : secretSanta[i][1] = p}) = 1
               /\ Cardinality({i \in DOMAIN secretSanta : secretSanta[i][2] = p}) = 1
        /\ Givers(secretSanta) \subseteq AllPeople
        /\ Receivers(secretSanta) \subseteq AllPeople

C1_Witness ==
    /\ pc = "save"
    /\ families = <<<<"A", "B">>, <<"C", "D">>>>
    /\ Len(secretSanta) = 4

\* C2: in a returned assignment no receiver is a member of the giver's family.
C2_FamilyExclusion ==
    Returned =>
        \A i \in DOMAIN secretSanta :
            ~SameFamily(families, secretSanta[i][1], secretSanta[i][2])

C2_Witness ==
    /\ pc = "finished"
    /\ families = <<<<"A", "B">>, <<"C", "D">>>>
    /\ secretSanta[2] = <<"B", "C">>

\* C3: in a returned assignment no participant is their own secret santa.
C3_Irreflexive ==
    Returned =>
        \A i \in DOMAIN secretSanta : secretSanta[i][1] # secretSanta[i][2]

C3_Witness ==
    /\ pc = "finished"
    /\ families = <<<<"A">>, <<"B">>, <<"C">>>>
    /\ Len(secretSanta) = 3

\* C4: in a returned assignment no giver has a receiver the giver had in one
\* of the previous-year files that were loaded.
C4_HistoryExclusion ==
    Returned =>
        \A i \in DOMAIN secretSanta :
            secretSanta[i][2] \notin HistoryReceivers(secretSanta[i][1])

C4_Witness ==
    /\ pc = "save"
    /\ script = "SecretSanta"
    /\ families = <<<<"A", "B">>, <<"C", "D">>>>
    /\ "A" \in DOMAIN previousSecretSanta
    /\ previousSecretSanta["A"] = <<"C">>
    /\ secretSanta[1] = <<"A", "D">>

\* some assignment satisfies bijection, family-exclusion and history-exclusion
ValidAssignmentExists ==
    \E g \in [AllPeople -> AllPeople] :
        /\ \A a, b \in AllPeople : a # b => g[a] # g[b]
        /\ \A a \in AllPeople :
               /\ ~SameFamily(families, a, g[a])
               /\ g[a] \notin HistoryReceivers(a)

\* C5: for an input that admits no valid assignment, randomizeSecretSanta
\* never returns a list and every run ends in the exhausted-tries exception.
C5_InfeasibleRaises ==
    /\ [](Returned => ValidAssignmentExists)
    /\ (pc = "while" /\ tries = 0 /\ ~ValidAssignmentExists) ~> (pc = "raised")

C5_Witness ==
    /\ pc = "raised"
    /\ families = <<<<"A", "B">>>>
    /\ tries = MaxTries

\* C7: randomizeSecretSanta always terminates, by returning or raising; no
\* attempt is running once tries has reached 10, and tries never exceeds 10.
C7_Terminates ==
    /\ [](tries <= MaxTries)
    /\ [](pc \in {"member", "endattempt"} => tries < MaxTries)
    /\ (pc = "while") ~> (pc \in {"save", "raised"})

C7_Witness ==
    /\ pc = "raised"
    /\ tries = MaxTries
    /\ families = <<<<"A">>, <<"B">>, <<"C">>>>
    /\ Len(secretSanta) = 2

\* every member of every family has been paired in the current attempt
EveryMemberPaired == Len(secretSanta) = Len(Flatten(families))

\* C6: the exhausted-tries exception is raised only if no attempt, the last
\* allowed one included, paired every member.
C6_RaisesOnlyWithoutCompleteAttempt ==
    pc = "raised" => ~EveryMemberPaired

\* C8: when randomizeSecretSanta raises inside main the run is over: the
\* current-year save file has not been written, the verification has not
\* run and no text message has been sent.
C8_NothingPersistedOnRaise ==
    pc = "raised" =>
        /\ ~files[0].present
        /\ testSuccessful = "notrun"
        /\ sent = <<>>
        /\ ~ENABLED Next

C8_Witness ==
    /\ pc = "raised"
    /\ script = "SecretSanta"
    /\ sendTextMessages
    /\ families = <<<<"A">>, <<"B">>, <<"C">>>>
    /\ Len(secretSanta) = 2

\* C9: a text message is sent only after the assignment has been saved and
\* the verification has passed; after a failed verification none is sent.
C9_MessagesOnlyAfterVerification ==
    /\ sent # <<>> =>
           /\ files[0] = SavedFile(secretSanta)
           /\ testSuccessful = "passed"
    /\ testSuccessful = "failed" => sent = <<>>

\* some giver of the current-year file has the receiver that giver had in
\* one of the existing files of the four previous years
RepeatsAPreviousYear ==
    \E k \in 1..FourPreviousYears :
        /\ files[k].present
        /\ \E i \in DOMAIN files[0].pairs, j \in DOMAIN files[k].pairs :
               files[0].pairs[i] = files[k].pairs[j]

\* the two repeat-of-prior-year tests of the verifier
RepeatChecksPass ==
    /\ test_not_same_receiver_as_previous_year
    /\ test_not_same_receiver_as_any_of_four_previous_year

\* C10: on a saved current-year file the repeat-of-prior-year check fails
\* exactly when some giver repeats a receiver of one of the existing files of
\* the four previous years.
C10_RepeatCheckSeesEveryPreviousYear ==
    files[0].present => (RepeatChecksPass <=> ~RepeatsAPreviousYear)

\* C11 as stated: for the families [[A,B],[C,D],[E,F]] without history the
\* call returns an assignment, it does not raise.
C11_ExampleAlwaysReturns ==
    families = SixPeopleFamilies => pc # "raised"

\* C11 as amended: the call ends, by returning or by raising; a returned
\* assignment has 6 pairs, none within a family and none from a participant
\* to themself.
C11_ExampleReturnsValidOrRaises ==
    /\ <>(pc \in {"save", "raised"})
    /\ [](pc = "save" =>
            /\ Len(secretSanta) = 6
            /\ \A i \in DOMAIN secretSanta :
                   /\ ~SameFamily(families, secretSanta[i][1], secretSanta[i][2])
                   /\ secretSanta[i][1] # secretSanta[i][2])

C11_Witness ==
    /\ pc = "save"
    /\ families = SixPeopleFamilies
    /\ Len(secretSanta) = 6
    /\ secretSanta[1] = <<"A", "C">>
    /\ secretSanta[5] = <<"E", "A">>

\* The attempt in progress has just found availableReceivers empty (lines
\* 159-161); fi and mi are the family and the member being assigned.
DeadEnded == pc = "endattempt" /\ ~randomizationSuccessful

\* C12: availableReceivers becomes empty only at the last member of the last
\* family, while some member of the last family has not been selected as a
\* receiver; never at an earlier member or family.
C12_DeadEndOnlyAtLastMember ==
    DeadEnded =>
        /\ fi = Len(families)
        /\ mi = Len(families[fi])
        /\ \E member \in Range(families[Len(families)]) :
               member \notin Receivers(secretSanta)

\* C13: the verdict of runUnitTestOnSavedFile is the verdict of every
\* discovered test run against the current-year save file; it is fixed by
\* that file, the family data and the files of the previous years, whatever
\* other save file is stored.
C13_VerdictFromCurrentFileOnly ==
    testSuccessful # "notrun" =>
        (testSuccessful = "passed" <=> runUnitTestOnSavedFile(files[0]))

C15_MissingPreviousFileIsEmptyHistory ==
    ~files[1].present =>
        /\ pc # "crashed"
        /\ (pc # "main" /\ ~files[2].present) => previousSecretSanta = EmptyDict

====
